---------------------------- MODULE Spec2Model ----------------------------
(***************************************************************************)
(* A model of the Go package sexprs (canonical S-expressions): the data   *)
(* model (Atom, List), the canonical packer, the advanced-form printer,   *)
(* structural equality and the reader (Parse / Read) over a bufio.Reader. *)
(*                                                                         *)
(* Bytes are the integers 0..255.  A []byte is a sequence of bytes.  An    *)
(* S-expression is a record; the nil interface value is NilSexp.  Errors   *)
(* are strings, "nil" being Go's nil error.  A call that never returns     *)
(* (an endless loop, or a recursion that ends in a stack overflow) is      *)
(* reported with the pseudo error "diverges".                              *)
(***************************************************************************)
EXTENDS Integers, Sequences, FiniteSets, TLC

VARIABLES
    v,      \* the tree handed to Pack / String / Base64String / PackedLen / Equal
    w,      \* the second tree handed to Equal
    gen,    \* how text was made: [form, e, cut, tail], text = Take(e, cut) \o tail
    text,   \* the bytes handed to Parse, and behind the persistent stream
    rd,     \* the persistent bufio.Reader used by repeated Read calls
    res,    \* what the last call returned
    reads,  \* what the Read calls on rd returned so far, in order
    pc      \* "new", "ready" (text is set), or the call made last

vars == <<v, w, gen, text, rd, res, reads, pc>>

-----------------------------------------------------------------------------
(* Bytes and the character tables (part_001 lines 52-65).                  *)

\* The byte literals the code names.
Ch == [ nul |-> 0, bs |-> 8, tab |-> 9, lf |-> 10, vt |-> 11, ff |-> 12,
        cr |-> 13, space |-> 32, dquote |-> 34, hash |-> 35, squote |-> 39,
        lparen |-> 40, rparen |-> 41, plus |-> 43, slash |-> 47, zero |-> 48,
        colon |-> 58, eq |-> 61, upperA |-> 65, lbracket |-> 91,
        backslash |-> 92, rbracket |-> 93, lowerA |-> 97, lowerB |-> 98,
        lowerF |-> 102, lowerN |-> 110, lowerR |-> 114, lowerT |-> 116,
        lowerV |-> 118, lowerX |-> 120, lbrace |-> 123, pipe |-> 124,
        rbrace |-> 125 ]

lowerCase == 97..122
upperCase == 65..90
decimalDigit == 48..57
alpha == lowerCase \cup upperCase
hexadecimalDigit == decimalDigit \cup (97..102) \cup (65..70)
octalDigit == 48..55
simplePunc == {45, 46, 47, 95, 58, 42, 43, 61}
whitespaceChar == {32, 9, 13, 10}
tokenChar == alpha \cup decimalDigit \cup simplePunc
stringChar == tokenChar \cup hexadecimalDigit \cup {34, 124, 35}
stringEncChar == stringChar \cup {8, 9, 11, 10, 12, 13, 34, 39, 92, 32}

-----------------------------------------------------------------------------
(* Helpers on byte sequences.                                              *)

Last(s) == s[Len(s)]
Front(s) == SubSeq(s, 1, Len(s) - 1)
Min(a, b) == IF a < b THEN a ELSE b
Max(a, b) == IF a < b THEN b ELSE a
Take(s, n) == SubSeq(s, 1, Min(n, Len(s)))
Drop(s, n) == SubSeq(s, n + 1, Len(s))

\* The bytes of s that are not in the set drop, in order.
WithoutBytes(s, drop) == SelectSeq(s, LAMBDA c : c \notin drop)

\* The index of the first c in s, or 0.
IndexOf(s, c) ==
    IF \E i \in 1..Len(s) : s[i] = c
    THEN CHOOSE i \in 1..Len(s) : s[i] = c /\ \A j \in 1..(i - 1) : s[j] # c
    ELSE 0

RECURSIVE Itoa(_)
\* strconv.Itoa of n >= 0: the decimal digits, most significant first.
Itoa(n) == IF n < 10 THEN <<48 + n>> ELSE Itoa(n \div 10) \o <<48 + (n % 10)>>

-----------------------------------------------------------------------------
(* The data model (part_001 lines 100-115).                                *)

\* The nil interface value.
NilSexp == [kind |-> "nil", hintNil |-> TRUE, DisplayHint |-> <<>>,
            Value |-> <<>>, elems |-> <<>>]

\* Atom{DisplayHint: h, Value: val}; hintNil says DisplayHint is the nil slice.
Atom(hintNil, h, val) ==
    [kind |-> "Atom", hintNil |-> hintNil, DisplayHint |-> h,
     Value |-> val, elems |-> <<>>]

\* Atom{Value: val}
AtomV(val) == Atom(TRUE, <<>>, val)

\* List{elems...}
List(elems) == [kind |-> "List", hintNil |-> TRUE, DisplayHint |-> <<>>,
                Value |-> <<>>, elems |-> elems]

IsList(s) == s.kind = "List"

-----------------------------------------------------------------------------
(* The canonical packer.                                                   *)

\* An atom packed with its display hint in brackets even when there is none.
PackAtomBracketed(a) ==
    <<Ch.lbracket>> \o Itoa(Len(a.DisplayHint)) \o <<Ch.colon>>
    \o a.DisplayHint \o <<Ch.rbracket>>
    \o Itoa(Len(a.Value)) \o <<Ch.colon>> \o a.Value

\* Atom.PackBuffer
PackAtom(a) ==
    (IF ~a.hintNil /\ Len(a.DisplayHint) > 0
     THEN <<Ch.lbracket>> \o Itoa(Len(a.DisplayHint)) \o <<Ch.colon>>
          \o a.DisplayHint \o <<Ch.rbracket>>
     ELSE <<>>)
    \o Itoa(Len(a.Value)) \o <<Ch.colon>> \o a.Value

RECURSIVE PackList(_, _)
RECURSIVE Pack(_)
\* The loop of List.PackBuffer from member i on.
PackList(l, i) ==
    IF i > Len(l) THEN <<>> ELSE Pack(l[i]) \o PackList(l, i + 1)

Pack(s) ==
    IF s.kind = "Atom" THEN PackAtom(s)
    ELSE <<Ch.lparen>> \o PackList(s.elems, 1) \o <<Ch.rparen>>

AtomPackedLen(a) ==
    LET hinted == IF ~a.hintNil /\ Len(a.DisplayHint) > 0
                  THEN 3 + Len(Itoa(Len(a.DisplayHint))) + Len(a.DisplayHint)
                  ELSE 0
    IN  hinted + Len(Itoa(Len(a.DisplayHint))) + 1 + Len(a.Value)

RECURSIVE PackedLen(_)
RECURSIVE ListPackedLen(_, _)
ListPackedLen(l, i) ==
    IF i > Len(l) THEN 0 ELSE PackedLen(l[i]) + ListPackedLen(l, i + 1)

PackedLen(s) ==
    IF s.kind = "Atom" THEN AtomPackedLen(s)
    ELSE 2 + ListPackedLen(s.elems, 1)

-----------------------------------------------------------------------------
(* Structural equality.                                                    *)

\* bytes.Equal: a nil slice and an empty slice hold the same bytes.
BytesEqual(a, b) == a = b

RECURSIVE Equal(_, _)
\* Atoms compared by value alone.
AtomEqualByValue(a, b) == b.kind = "Atom" /\ BytesEqual(a.Value, b.Value)

\* Atom.Equal
AtomEqual(a, b) ==
    IF b.kind = "nil" THEN FALSE
    ELSE IF b.kind = "Atom"
         THEN BytesEqual(a.DisplayHint, b.DisplayHint) /\ BytesEqual(a.Value, b.Value)
         ELSE FALSE

\* Lists compared as collections: each member of l equals some member of b.
ListEqualAnyOrder(l, b) ==
    /\ b.kind = "List"
    /\ Len(l.elems) = Len(b.elems)
    /\ \A i \in 1..Len(l.elems) : \E j \in 1..Len(b.elems) : Equal(l.elems[i], b.elems[j])

\* List.Equal
ListEqual(l, b) ==
    IF b.kind = "nil" THEN FALSE
    ELSE IF b.kind = "List"
         THEN IF Len(l.elems) # Len(b.elems) THEN FALSE
              ELSE \A i \in 1..Len(l.elems) : Equal(l.elems[i], b.elems[i])
         ELSE FALSE

\* a.Equal(b) for a non-nil a.
Equal(a, b) == IF a.kind = "Atom" THEN AtomEqual(a, b) ELSE ListEqual(a, b)

-----------------------------------------------------------------------------
(* bufio.Reader over a bytes.Reader.  The input is shorter than bufio's    *)
(* buffer (4096 bytes), so the first fill loads all of it: what is left of *)
(* the stream is buf, and last is bufio's lastByte (-1: none).  A failed   *)
(* ReadByte leaves lastByte alone, so an UnreadByte after it puts the last *)
(* byte delivered back into the stream.                                    *)

NewReader(s) == [buf |-> s, last |-> -1]

\* r.ReadByte()
ReadByte(r) ==
    IF r.buf = <<>>
    THEN [c |-> 0, err |-> "EOF", r |-> r]
    ELSE [c |-> Head(r.buf), err |-> "nil",
          r |-> [buf |-> Tail(r.buf), last |-> Head(r.buf)]]

\* r.UnreadByte()
UnreadByte(r) ==
    IF r.last < 0
    THEN [err |-> "ErrInvalidUnreadByte", r |-> r]
    ELSE [err |-> "nil", r |-> [buf |-> <<r.last>> \o r.buf, last |-> -1]]

\* r.ReadBytes(delim): up to and including the first delim, or all that is
\* left together with io.EOF.
ReadBytes(r, delim) ==
    LET i == IndexOf(r.buf, delim)
    IN  IF i > 0
        THEN [line |-> SubSeq(r.buf, 1, i), err |-> "nil",
              r |-> [buf |-> Drop(r.buf, i), last |-> delim]]
        ELSE [line |-> r.buf, err |-> "EOF",
              r |-> [buf |-> <<>>,
                     last |-> IF r.buf = <<>> THEN r.last ELSE Last(r.buf)]]

\* r.Read(p) for len(p) = n.  With n = 0 the caller ignores the error.
ReadN(r, n) ==
    IF n = 0 THEN [data |-> <<>>, err |-> "nil", r |-> r]
    ELSE IF r.buf = <<>> THEN [data |-> <<>>, err |-> "EOF", r |-> r]
    ELSE LET k == Min(n, Len(r.buf))
         IN  [data |-> SubSeq(r.buf, 1, k), err |-> "nil",
              r |-> [buf |-> Drop(r.buf, k), last |-> r.buf[k]]]

\* ioutil.ReadAll(r): everything left (its io.EOF is not an error).
ReadAll(r) == r.buf

-----------------------------------------------------------------------------
(* strconv.ParseInt, encoding/hex and encoding/base64 as the code uses     *)
(* them.                                                                   *)

\* F applied to the value of x, which is evaluated once.
With(x, F(_)) == CHOOSE y \in {F(z) : z \in {x}} : TRUE

\* The value of byte c as a digit, or -1.
DigitVal(c) ==
    IF c \in 48..57 THEN c - 48
    ELSE IF c \in 97..122 THEN c - 97 + 10
    ELSE IF c \in 65..90 THEN c - 65 + 10
    ELSE -1

RECURSIVE DigitsValue(_, _)
DigitsValue(s, base) ==
    IF s = <<>> THEN 0
    ELSE DigitsValue(Front(s), base) * base + DigitVal(Last(s))

\* The largest signed integer of bitSize bits (8 and 32 are the sizes used).
MaxIntOf(bitSize) == IF bitSize = 8 THEN 127 ELSE 2147483647

\* strconv.ParseInt(string(s), base, bitSize) for s that starts with no sign.
ParseInt(s, base, bitSize) ==
    IF s = <<>> \/ \E i \in 1..Len(s) : DigitVal(s[i]) < 0 \/ DigitVal(s[i]) >= base
    THEN [n |-> 0, err |-> "ErrSyntax"]
    ELSE IF DigitsValue(s, base) > MaxIntOf(bitSize)
         THEN [n |-> MaxIntOf(bitSize), err |-> "ErrRange"]
         ELSE [n |-> DigitsValue(s, base), err |-> "nil"]

\* The letters a to f valued from zero.
HexValLettersFromZero(c) ==
    IF c \in decimalDigit THEN c - 48
    ELSE IF c \in hexadecimalDigit THEN (c % 32) - 1
    ELSE -1

\* hex's reverseHexTable
HexVal(c) == IF c \in hexadecimalDigit THEN DigitVal(c) ELSE -1

RECURSIVE HexDecodeFrom(_, _, _)
\* hex.Decode from the pair that starts at index j, out being decoded so far.
HexDecodeFrom(src, j, out) ==
    IF j > Len(src) THEN [b |-> out, err |-> "nil"]
    ELSE IF j = Len(src)
         THEN [b |-> out,
               err |-> IF HexVal(src[j]) < 0 THEN "ErrHexInvalidByte" ELSE "ErrHexLength"]
         ELSE IF HexVal(src[j]) < 0 \/ HexVal(src[j + 1]) < 0
              THEN [b |-> out, err |-> "ErrHexInvalidByte"]
              ELSE HexDecodeFrom(src, j + 2,
                                 Append(out, HexVal(src[j]) * 16 + HexVal(src[j + 1])))

HexDecode(src) == HexDecodeFrom(src, 1, <<>>)

\* The base64 standard alphabet: the 6-bit value of byte c, or -1.
B64Val(c) ==
    IF c \in 65..90 THEN c - 65
    ELSE IF c \in 97..122 THEN c - 97 + 26
    ELSE IF c \in 48..57 THEN c - 48 + 52
    ELSE IF c = 43 THEN 62
    ELSE IF c = 47 THEN 63
    ELSE -1

\* The byte that encodes the 6-bit value n.
B64Char(n) ==
    IF n < 26 THEN 65 + n
    ELSE IF n < 52 THEN 97 + (n - 26)
    ELSE IF n < 62 THEN 48 + (n - 52)
    ELSE IF n = 62 THEN 43 ELSE 47

RECURSIVE B64Encode(_)
\* base64.StdEncoding.EncodeToString
B64Encode(src) ==
    IF src = <<>> THEN <<>>
    ELSE IF Len(src) = 1
         THEN <<B64Char(src[1] \div 4), B64Char((src[1] % 4) * 16), 61, 61>>
    ELSE IF Len(src) = 2
         THEN <<B64Char(src[1] \div 4),
                B64Char((src[1] % 4) * 16 + src[2] \div 16),
                B64Char((src[2] % 16) * 4), 61>>
    ELSE <<B64Char(src[1] \div 4),
           B64Char((src[1] % 4) * 16 + src[2] \div 16),
           B64Char((src[2] % 16) * 4 + src[3] \div 64),
           B64Char(src[3] % 64)>> \o With(Drop(src, 3), B64Encode)

\* The bytes of a quantum of dlen 6-bit values d (dlen in 2..4).
B64Bytes(d, dlen) ==
    LET val == d[1] * 262144 + d[2] * 4096 + d[3] * 64 + d[4]
        all == <<val \div 65536, (val \div 256) % 256, val % 256>>
    IN  SubSeq(all, 1, dlen - 1)

\* decodeQuantum of base64.StdEncoding (padded, not strict) at 0-based
\* offset si of src, which holds no CR or LF: the code strips them first.
B64Quantum(src, si) ==
    LET n == Len(src)
        at(k) == src[si + k]                    \* 1-based k-th byte from si
        ok(k) == si + k <= n /\ B64Val(at(k)) >= 0
        pad(k) == si + k <= n /\ at(k) = 61
        dv(k) == IF ok(k) THEN B64Val(at(k)) ELSE 0
        d == <<dv(1), dv(2), dv(3), dv(4)>>
    IN  IF ~ok(1) \/ ~ok(2)
        THEN [si |-> n, b |-> <<>>, err |-> "ErrBase64"]
        ELSE IF ok(3)
             THEN IF ok(4) THEN [si |-> si + 4, b |-> B64Bytes(d, 4), err |-> "nil"]
                  ELSE IF pad(4)
                       THEN [si |-> si + 4, b |-> B64Bytes(d, 3),
                             err |-> IF si + 4 < n THEN "ErrBase64" ELSE "nil"]
                       ELSE [si |-> n, b |-> <<>>, err |-> "ErrBase64"]
             ELSE IF pad(3) /\ pad(4)
                  THEN [si |-> si + 4, b |-> B64Bytes(d, 2),
                        err |-> IF si + 4 < n THEN "ErrBase64" ELSE "nil"]
                  ELSE [si |-> n, b |-> <<>>, err |-> "ErrBase64"]

RECURSIVE B64DecodeFrom(_, _, _)
B64DecodeFrom(src, si, out) ==
    IF si >= Len(src) THEN [b |-> out, err |-> "nil"]
    ELSE With(B64Quantum(src, si), LAMBDA q :
            IF q.err # "nil" THEN [b |-> out \o q.b, err |-> q.err]
            ELSE B64DecodeFrom(src, q.si, out \o q.b))

\* base64.StdEncoding.Decode: the bytes decoded before the error, if any.
B64Decode(src) == B64DecodeFrom(src, 0, <<>>)

-----------------------------------------------------------------------------
(* The sub-string reader.  Each operator returns [b, err, r]: the bytes,   *)
(* the error and the reader afterwards.                                    *)

\* The result of a string read.
Str(b, err, r) == [b |-> b, err |-> err, r |-> r]

\* An escape character standing for itself.
EscapeByteItself(c) ==
    IF c \in {Ch.lowerB, Ch.lowerT, Ch.lowerV, Ch.lowerN, Ch.lowerF, Ch.lowerR,
              Ch.dquote, Ch.squote, Ch.backslash}
    THEN c ELSE -1

\* The byte a single-character escape stands for (lines 599-625), or -1.
EscapeByte(c) ==
    IF c = Ch.lowerB THEN Ch.bs
    ELSE IF c = Ch.lowerT THEN Ch.tab
    ELSE IF c = Ch.lowerV THEN Ch.vt
    ELSE IF c = Ch.lowerN THEN Ch.lf
    ELSE IF c = Ch.lowerF THEN Ch.ff
    ELSE IF c = Ch.lowerR THEN Ch.cr
    ELSE IF c = Ch.dquote THEN Ch.dquote
    ELSE IF c = Ch.squote THEN Ch.squote
    ELSE IF c = Ch.backslash THEN Ch.backslash
    ELSE -1

\* The check made at a closing quote.
LengthMismatch(acc, length) == length > 0 /\ Len(acc) # length

\* What readQuotedString returns at a closing quote.
Closing(acc, length, r) ==
    IF LengthMismatch(acc, length) THEN Str(<<>>, "ErrLengthMismatch", r)
    ELSE Str(acc, "nil", r)

\* The byte an escape of two digits in escape[:2] stands for (lines 678, 697).
EscapeNumber(escape, base) == ParseInt(SubSeq(escape, 1, 2), base, 8)

RECURSIVE QuoteLoop(_, _, _, _, _)
\* The loop of readQuotedString: acc, state and escape are its variables.
QuoteLoop(r, length, acc, state, escape) ==
    With(ReadByte(r), LAMBDA rb :
    IF rb.err # "nil" THEN Str(<<>>, "ErrUnterminatedString", rb.r)
    ELSE CASE state = "inQuote" ->
            IF rb.c = Ch.dquote THEN Closing(acc, length, rb.r)
            ELSE IF rb.c = Ch.backslash
                 THEN QuoteLoop(rb.r, length, acc, "inEscape", escape)
                 ELSE QuoteLoop(rb.r, length, Append(acc, rb.c), "inQuote", escape)
         [] state = "inEscape" ->
            IF EscapeByte(rb.c) >= 0
            THEN QuoteLoop(rb.r, length, Append(acc, EscapeByte(rb.c)), "inQuote", escape)
            ELSE IF rb.c = Ch.lf
                 THEN QuoteLoop(rb.r, length, acc, "inNewlineEscape", escape)
            ELSE IF rb.c = Ch.cr
                 THEN QuoteLoop(rb.r, length, acc, "inReturnEscape", escape)
            ELSE IF rb.c = Ch.lowerX
                 THEN QuoteLoop(rb.r, length, acc, "inHex1", escape)
            ELSE IF rb.c \in octalDigit
                 \* state = inOctal2 is overwritten by line 639
                 THEN QuoteLoop(rb.r, length, acc, "inQuote", [escape EXCEPT ![1] = rb.c])
                 ELSE Str(<<>>, "ErrEscape", rb.r)
         [] state = "inNewlineEscape" ->
            IF rb.c = Ch.cr THEN QuoteLoop(rb.r, length, acc, "inQuote", escape)
            ELSE IF rb.c = Ch.dquote THEN Closing(acc, length, rb.r)
            ELSE QuoteLoop(rb.r, length, Append(acc, rb.c), "inQuote", escape)
         [] state = "inReturnEscape" ->
            IF rb.c = Ch.lf THEN QuoteLoop(rb.r, length, acc, "inQuote", escape)
            ELSE IF rb.c = Ch.dquote THEN Closing(acc, length, rb.r)
            ELSE QuoteLoop(rb.r, length, Append(acc, rb.c), "inQuote", escape)
         [] state = "inHex1" ->
            IF rb.c \in hexadecimalDigit
            THEN QuoteLoop(rb.r, length, acc, "inHex2", [escape EXCEPT ![1] = rb.c])
            ELSE Str(<<>>, "ErrHexDigit", rb.r)
         [] state = "inHex2" ->
            IF rb.c \in hexadecimalDigit
            THEN With(EscapeNumber([escape EXCEPT ![3] = rb.c], 16), LAMBDA num :
                    IF num.err # "nil" THEN Str(<<>>, num.err, rb.r)
                    ELSE QuoteLoop(rb.r, length, Append(acc, num.n), "inQuote",
                                   [escape EXCEPT ![3] = rb.c]))
            ELSE Str(<<>>, "ErrHexDigit", rb.r)
         [] state = "inOctal2" ->
            IF rb.c \in octalDigit
            THEN QuoteLoop(rb.r, length, acc, "inOctal3", [escape EXCEPT ![2] = rb.c])
            ELSE Str(<<>>, "ErrOctalDigit", rb.r)
         [] state = "inOctal3" ->
            IF rb.c \in octalDigit
            THEN With(EscapeNumber([escape EXCEPT ![3] = rb.c], 8), LAMBDA num :
                    IF num.err # "nil" THEN Str(<<>>, num.err, rb.r)
                    ELSE QuoteLoop(rb.r, length, Append(acc, num.n), "inQuote",
                                   [escape EXCEPT ![3] = rb.c]))
            ELSE Str(<<>>, "ErrOctalDigit", rb.r))

\* readQuotedString(r, length): escape = make([]byte, 3) is three zero bytes.
readQuotedString(r, length) == QuoteLoop(r, length, <<>>, "inQuote", <<0, 0, 0>>)

\* readHex decoding what it read when the stream ends before the '#'.
readHexToTheEnd(r) ==
    With(ReadBytes(r, Ch.hash), LAMBDA rb :
        With(HexDecode(WithoutBytes(IF rb.err # "nil" THEN rb.line ELSE Front(rb.line),
                                    whitespaceChar)),
             LAMBDA d : Str(d.b, d.err, rb.r)))

\* readHex(r)
readHex(r) ==
    With(ReadBytes(r, Ch.hash), LAMBDA rb :
        IF rb.err # "nil" THEN Str(<<>>, "ErrHexUnterminated", rb.r)
        ELSE With(HexDecode(WithoutBytes(Front(rb.line), whitespaceChar)),
                  LAMBDA d : Str(d.b, d.err, rb.r)))

\* readBase64(r)
readBase64(r) ==
    With(ReadBytes(r, Ch.pipe), LAMBDA rb :
        IF rb.err # "nil" THEN Str(<<>>, "ErrBase64Unterminated", rb.r)
        ELSE With(B64Decode(WithoutBytes(Front(rb.line), whitespaceChar)),
                  LAMBDA d : Str(d.b, d.err, rb.r)))

\* The raw read stopping one byte short of the declared length.
RawReadOneShort(r, length) ==
    With(ReadN(r, Max(length - 1, 0)), LAMBDA rn : Str(rn.data, "nil", rn.r))

\* The raw read of lines 491-499: length bytes, or what is left and io.EOF.
RawRead(r, length) ==
    With(ReadN(r, length), LAMBDA rn :
        IF Len(rn.data) < length THEN Str(rn.data, "EOF", rn.r)
        ELSE Str(rn.data, "nil", rn.r))

\* The decoded string d handed on whatever its length.
CheckedLengthUnchecked(d, length, wrapped) ==
    IF d.err # "nil" THEN Str(<<>>, wrapped, d.r) ELSE d

\* Lines 504-510 and 516-522: the decoded string d checked against length.
CheckedLength(d, length, wrapped) ==
    IF d.err # "nil" THEN Str(<<>>, wrapped, d.r)
    ELSE IF Len(d.b) # length THEN Str(<<>>, "ErrLengthMismatch", d.r)
    ELSE d

RECURSIVE LengthLoop(_, _)
\* The loop of readLengthDelimited, acc being the digits read so far.
LengthLoop(r, acc) ==
    With(ReadByte(r), LAMBDA rb :
    IF rb.err # "nil" THEN Str(<<>>, rb.err, rb.r)
    ELSE IF rb.c \in decimalDigit THEN LengthLoop(rb.r, Append(acc, rb.c))
    ELSE IF rb.c \in {Ch.colon, Ch.hash, Ch.pipe}
         THEN With(ParseInt(acc, 10, 32), LAMBDA length :
                IF length.err # "nil" THEN Str(<<>>, length.err, rb.r)
                ELSE IF rb.c = Ch.colon THEN RawRead(rb.r, length.n)
                ELSE IF rb.c = Ch.hash
                     THEN With(readHex(rb.r), LAMBDA d :
                            CheckedLength(d, length.n, "ErrLengthDelimitedHex"))
                     ELSE With(readBase64(rb.r), LAMBDA d :
                            CheckedLength(d, length.n, "ErrLengthDelimitedBase64")))
    ELSE Str(<<>>, "ErrExpectedInteger", rb.r))

\* readLengthDelimited(r, first)
readLengthDelimited(r, first) == LengthLoop(r, <<first>>)

RECURSIVE TokenLoop(_, _)
\* The loop of lines 456-469, b being the token bytes read so far.  At the
\* end of the stream c is 0, which is no token byte.
TokenLoop(r, b) ==
    With(ReadByte(r), LAMBDA rb :
        IF rb.c \notin tokenChar
        THEN With(UnreadByte(rb.r), LAMBDA un :
                IF un.err # "nil" THEN Str(<<>>, un.err, un.r)
                ELSE Str(b, "nil", un.r))
        ELSE TokenLoop(rb.r, Append(b, rb.c)))

\* readSimpleString(r, first)
readSimpleString(r, first) ==
    IF first \in decimalDigit THEN readLengthDelimited(r, first)
    ELSE IF first = Ch.hash THEN readHex(r)
    ELSE IF first = Ch.pipe THEN readBase64(r)
    ELSE IF first = Ch.dquote THEN readQuotedString(r, -1)
    ELSE IF first \in tokenChar THEN TokenLoop(r, <<first>>)
    ELSE Str(<<>>, "ErrCantReadSimpleString", r)

-----------------------------------------------------------------------------
(* The expression reader.  Each operator returns [s, err, r]: the value,   *)
(* the error and the reader afterwards.                                    *)

\* The result of a read.
Ret(s, err, r) == [s |-> s, err |-> err, r |-> r]

\* Lines 421-437: the display hint in brackets, then the value string.
readHinted(r) ==
    With(ReadByte(r), LAMBDA c1 :
    IF c1.err # "nil" THEN Ret(NilSexp, c1.err, c1.r)
    ELSE With(readSimpleString(c1.r, c1.c), LAMBDA hint :
         IF hint.err # "nil" THEN Ret(NilSexp, hint.err, hint.r)
         ELSE With(ReadByte(hint.r), LAMBDA c2 :
              IF c2.err # "nil" THEN Ret(NilSexp, c2.err, c2.r)
              ELSE IF c2.c # Ch.rbracket THEN Ret(NilSexp, "ErrHintClose", c2.r)
              \* the error of the next ReadByte is dropped (line 437)
              ELSE With(ReadByte(c2.r), LAMBDA c3 :
                   With(readSimpleString(c3.r, c3.c), LAMBDA val :
                        Ret(Atom(FALSE, hint.b, val.b), val.err, val.r))))))

\* readString(r, first)
readString(r, first) ==
    IF first = Ch.lbracket THEN readHinted(r)
    ELSE With(readSimpleString(r, first), LAMBDA val :
              Ret(Atom(TRUE, <<>>, val.b), val.err, val.r))

RECURSIVE Read(_, _)
RECURSIVE ListLoop(_, _, _)
\* The loop of lines 391-413, l being the members read so far.  What a turn
\* does to the stream depends on the reader alone; seen holds the readers
\* that the turns under way, of this loop and of the loops around it, began
\* with, and a turn that begins with one of them again never ends.
ListLoop(r, l, seen) ==
    IF r \in seen THEN Ret(NilSexp, "diverges", r)
    ELSE With(ReadByte(r), LAMBDA rb :
         IF rb.c = Ch.rparen THEN Ret(List(l), rb.err, rb.r)
         ELSE IF rb.c \notin whitespaceChar
              THEN With(UnreadByte(rb.r), LAMBDA un :
                   IF un.err # "nil" THEN Ret(NilSexp, "ErrUnread", un.r)
                   ELSE With(Read(un.r, seen \cup {r}), LAMBDA el :
                        IF el.err # "nil" THEN Ret(NilSexp, el.err, el.r)
                        ELSE ListLoop(el.r, Append(l, el.s), seen \cup {r})))
         ELSE IF rb.err # "nil" THEN Ret(NilSexp, rb.err, rb.r)
         ELSE ListLoop(rb.r, l, seen \cup {r}))

\* Lines 376-386: the value read from the decoded payload d.
ReadInner(d, r) ==
    With(Read(NewReader(d), {}), LAMBDA inner :
        IF inner.err \in {"nil", "EOF"} THEN Ret(inner.s, "nil", r)
        ELSE IF inner.err = "diverges" THEN Ret(NilSexp, "diverges", r)
        ELSE Ret(NilSexp, "ErrTransportInner", r))

\* The transport case of lines 365-387.
ReadTransport(r) ==
    With(ReadBytes(r, Ch.rbrace), LAMBDA rb :
        IF rb.err # "nil" THEN Ret(NilSexp, "ErrTransportUnterminated", rb.r)
        ELSE With(B64Decode(WithoutBytes(Front(rb.line), whitespaceChar)), LAMBDA d :
             IF d.err # "nil" THEN Ret(NilSexp, d.err, rb.r)
             ELSE ReadInner(d.b, rb.r)))

\* Read(r), in the turns seen of the list loops around it.
Read(r, seen) ==
    With(ReadByte(r), LAMBDA rb :
        IF rb.err # "nil" THEN Ret(NilSexp, rb.err, rb.r)
        ELSE IF rb.c = Ch.lbrace THEN ReadTransport(rb.r)
        ELSE IF rb.c = Ch.lparen THEN ListLoop(rb.r, <<>>, seen)
        ELSE readString(rb.r, rb.c))

\* Parse handing on what Read returned along with an error.
ParseKeepingValue(s) ==
    With(Read(NewReader(s), {}), LAMBDA x :
        IF x.err # "nil" /\ x.err # "EOF"
        THEN [s |-> x.s, rest |-> <<>>, err |-> x.err]
        ELSE [s |-> x.s, rest |-> ReadAll(x.r), err |-> "nil"])

\* Parse(s): [s, rest, err]
Parse(s) ==
    With(Read(NewReader(s), {}), LAMBDA x :
        IF x.err # "nil" /\ x.err # "EOF"
        THEN [s |-> NilSexp, rest |-> <<>>, err |-> x.err]
        ELSE [s |-> x.s, rest |-> ReadAll(x.r), err |-> "nil"])

-----------------------------------------------------------------------------
(* The advanced-form printer.  Each operator returns [b, panic]: the bytes *)
(* written, and whether the call panicked.                                 *)

\* What a printer wrote.
Out(b, panic) == [b |-> b, panic |-> panic]

\* The size classes of byte slices up to 128 bytes.
SizeClasses == {8, 16, 24, 32, 48, 64, 80, 96, 112, 128}

\* The capacity growslice gives a byte slice of capacity cap that must hold
\* need bytes: doubled (or need, if more), rounded up to a size class.
GrowCap(cap, need) ==
    With(Max(need, 2 * cap), LAMBDA want :
        IF \A k \in SizeClasses : k < want THEN want
        ELSE CHOOSE k \in SizeClasses :
                k >= want /\ \A m \in SizeClasses : m >= want => k <= m)

\* What the inner switch of writeString appends to strAcc for byte c
\* (lines 186-203); the backspace case assigns to acc instead.
Escaped(c) ==
    IF c = Ch.tab THEN <<Ch.backslash, Ch.lowerT>>
    ELSE IF c = Ch.vt THEN <<Ch.backslash, Ch.lowerV>>
    ELSE IF c = Ch.lf THEN <<Ch.backslash, Ch.lowerN>>
    ELSE IF c = Ch.ff THEN <<Ch.backslash, Ch.lowerF>>
    ELSE IF c = Ch.dquote THEN <<Ch.backslash, Ch.dquote>>
    ELSE IF c = Ch.squote THEN <<Ch.squote>>
    ELSE IF c = Ch.backslash THEN <<Ch.backslash, Ch.backslash>>
    ELSE IF c = Ch.cr THEN <<Ch.backslash, Ch.lowerR>>
    ELSE <<c>>

\* Array cells from+1.. of arr overwritten by the bytes x, as far as arr goes.
Overwrite(arr, from, x) ==
    [k \in 1..Len(arr) |->
        IF k > from /\ k <= from + Len(x) THEN x[k - from] ELSE arr[k]]

\* The slices of the inner loop of writeString: strAcc, of capacity cap, and
\* the outer accumulator acc; shared says that acc is a slice of the array
\* behind strAcc (after line 185 found room in it).
Slices(strAcc, cap, acc, shared) ==
    [strAcc |-> strAcc, cap |-> cap, acc |-> acc, shared |-> shared]

\* One turn of the loop of lines 177-205 on byte c, a string byte.
QuoteStep(c, st) ==
    IF c = Ch.bs
    THEN With(st.strAcc \o <<Ch.backslash, Ch.lowerB>>, LAMBDA bsp :
              Slices(st.strAcc, st.cap, bsp, Len(bsp) <= st.cap))
    ELSE With(Escaped(c), LAMBDA x :
         IF Len(st.strAcc) + Len(x) <= st.cap
         THEN Slices(st.strAcc \o x, st.cap,
                     IF st.shared THEN Overwrite(st.acc, Len(st.strAcc), x) ELSE st.acc,
                     st.shared)
         ELSE Slices(st.strAcc \o x, GrowCap(st.cap, Len(st.strAcc) + Len(x)),
                     st.acc, FALSE))

RECURSIVE QuoteScan(_, _, _)
\* The loop of lines 177-205 from index j on.
QuoteScan(a, j, st) ==
    IF j > Len(a) THEN [encoding |-> "quotedEnc", strAcc |-> st.strAcc, acc |-> st.acc]
    ELSE IF a[j] \notin stringEncChar
         THEN [encoding |-> "base64Enc", strAcc |-> st.strAcc, acc |-> st.acc]
    ELSE With(QuoteStep(a[j], st), LAMBDA st1 : QuoteScan(a, j + 1, st1))

\* What the switch of lines 216-224 writes.
Written(encoding, acc) ==
    IF encoding = "base64Enc"
    THEN Out(<<Ch.pipe>> \o B64Encode(acc) \o <<Ch.pipe>>, FALSE)
    ELSE IF encoding = "tokenEnc" THEN Out(acc, FALSE)
    ELSE Out(<<>>, TRUE)

RECURSIVE WriteLoop(_, _, _, _)
\* The loop of lines 168-215 from index i on, and the switch after it.
WriteLoop(a, i, encoding, acc) ==
    IF i > Len(a) THEN Written(encoding, acc)
    ELSE IF i > Len(acc) THEN Out(<<>>, TRUE)      \* acc[i]: index out of range
    ELSE With([acc EXCEPT ![i] = a[i]], LAMBDA acc1 :
         IF a[i] \in tokenChar THEN WriteLoop(a, i + 1, encoding, acc1)
         ELSE IF encoding = "tokenEnc" /\ a[i] \in stringEncChar
              THEN With(QuoteScan(a, i, Slices(SubSeq(acc1, 1, i - 1), Len(a), acc1, FALSE)),
                        LAMBDA q :
                        IF q.encoding = "quotedEnc"
                        THEN Out(<<Ch.dquote>> \o q.strAcc \o <<Ch.dquote>>, FALSE)
                        ELSE WriteLoop(a, i + 1, "base64Enc", q.acc))
         ELSE WriteLoop(a, i + 1, "base64Enc", acc1))

\* writeString(buf, a): acc = make([]byte, len(a)) is len(a) zero bytes.
writeString(a) == WriteLoop(a, 1, "tokenEnc", [k \in 1..Len(a) |-> 0])

\* Lines 229-233: the display hint in brackets, if there is one.
HintString(a) ==
    IF ~a.hintNil /\ Len(a.DisplayHint) > 0
    THEN With(writeString(a.DisplayHint), LAMBDA h :
              Out(<<Ch.lbracket>> \o h.b \o <<Ch.rbracket>>, h.panic))
    ELSE Out(<<>>, FALSE)

\* Lines 234-238: the value, "" if it is empty.
ValueString(a) ==
    IF Len(a.Value) = 0 THEN Out(<<Ch.dquote, Ch.dquote>>, FALSE)
    ELSE writeString(a.Value)

\* Atom.StringBuffer
AtomString(a) ==
    With(HintString(a), LAMBDA h :
        IF h.panic THEN Out(<<>>, TRUE)
        ELSE With(ValueString(a), LAMBDA val :
             IF val.panic THEN Out(<<>>, TRUE)
             ELSE Out(h.b \o val.b, FALSE)))

RECURSIVE String(_)
RECURSIVE ListString(_, _)
\* The loop of List.StringBuffer from member i on.
ListString(l, i) ==
    IF i > Len(l) THEN Out(<<>>, FALSE)
    ELSE With(String(l[i]), LAMBDA m :
         IF m.panic THEN Out(<<>>, TRUE)
         ELSE With(ListString(l, i + 1), LAMBDA tl :
              IF tl.panic THEN Out(<<>>, TRUE)
              ELSE Out(m.b \o (IF i < Len(l) THEN <<Ch.space>> ELSE <<>>) \o tl.b,
                       FALSE)))

\* s.String()
String(s) ==
    IF s.kind = "Atom" THEN AtomString(s)
    ELSE With(ListString(s.elems, 1), LAMBDA ms :
         IF ms.panic THEN Out(<<>>, TRUE)
         ELSE Out(<<Ch.lparen>> \o ms.b \o <<Ch.rparen>>, FALSE))

\* The advanced text of s, not its packing, in base64 between braces.
Base64StringOfText(s) == <<Ch.lbrace>> \o B64Encode(String(s).b) \o <<Ch.rbrace>>

\* s.Base64String()
Base64String(s) == <<Ch.lbrace>> \o B64Encode(Pack(s)) \o <<Ch.rbrace>>

-----------------------------------------------------------------------------
(* Bounds and the inputs drawn from them.                                  *)

\* Longest value of an atom drawn over the whole alphabet.
MaxLen == 2
\* Longest display hint.
MaxHint == 1
\* Most nodes (lists and atoms) of a list.
MaxNodes == 3
\* Longest value of an atom drawn over one byte: two decimal digits of length.
LongLen == 10
\* Longest text drawn over the syntax bytes.
MaxText == 3
\* Longest run of bytes after a complete value.
MaxTail == 2
\* Most reads of one stream.
MaxReads == 3
\* Most decimal digits of a length.
MaxDigits == 2
\* Longest run of whitespace in front of a text.
MaxBlanks == 1
\* Most items of a quoted string on either side of an escape sequence.
MaxBody == 1

\* All byte sequences over alphabet of length at most n.
SeqsUpTo(alphabet, n) == UNION {[1..k -> alphabet] : k \in 0..n}

\* Value bytes: a token byte, a digit, backspace, newline, a binary byte and
\* two bytes of the syntax.
ValBytes == {Ch.lowerA, Ch.zero + 1, Ch.bs, Ch.lf, Ch.nul, Ch.rparen, Ch.colon}
HintBytes == {Ch.lowerA, Ch.bs}

\* Display hints: absent (nil), and present ones, the empty one included.
HintsUpTo(alphabet, n) ==
    {<<TRUE, <<>> >>} \cup {<<FALSE, h>> : h \in SeqsUpTo(alphabet, n)}

AtomsOver(values, hints) == {Atom(h[1], h[2], val) : val \in values, h \in hints}

RECURSIVE TreesOfSize(_, _)
RECURSIVE Forests(_, _)
\* The trees of exactly n nodes whose atoms are leaves.
TreesOfSize(leaves, n) ==
    (IF n = 1 THEN leaves ELSE {}) \cup {List(f) : f \in Forests(leaves, n - 1)}

\* The sequences of trees of m nodes in all.
Forests(leaves, m) ==
    IF m = 0 THEN {<<>>}
    ELSE UNION {{<<t>> \o f : t \in TreesOfSize(leaves, k),
                              f \in Forests(leaves, m - k)} : k \in 1..m}

ListsUpTo(leaves, n) ==
    UNION {{t \in TreesOfSize(leaves, k) : t.kind = "List"} : k \in 1..n}

\* The atoms that lists are built from.
Leaves == {AtomV(<<Ch.lowerA>>), Atom(FALSE, <<Ch.lowerA>>, <<>>), AtomV(<<Ch.bs>>)}

\* Atoms whose value is a run of 'a' longer than MaxLen.
LongAtoms ==
    AtomsOver({[i \in 1..k |-> Ch.lowerA] : k \in (MaxLen + 1)..LongLen},
              {<<TRUE, <<>> >>, <<FALSE, <<Ch.lowerA>> >>})

\* The trees handed to the packer and the printer.
Trees ==
    AtomsOver(SeqsUpTo(ValBytes, MaxLen), HintsUpTo(HintBytes, MaxHint))
    \cup LongAtoms \cup ListsUpTo(Leaves, MaxNodes)

\* The trees compared pairwise.
EqTrees ==
    AtomsOver(SeqsUpTo({Ch.lowerA, Ch.lowerB}, MaxLen), HintsUpTo({Ch.lowerA}, MaxHint))
    \cup ListsUpTo(Leaves, MaxNodes)

\* The bytes texts are drawn over: the syntax, a digit, a letter, a blank.
SyntaxBytes ==
    {Ch.lparen, Ch.rparen, Ch.lbracket, Ch.rbracket, Ch.lbrace, Ch.rbrace,
     Ch.dquote, Ch.backslash, Ch.hash, Ch.pipe, Ch.colon, Ch.zero + 1, Ch.lowerA,
     Ch.space}

\* The trees whose texts are read back: their values print as a token, as a
\* quoted string and in base64.
TextLeaves == {AtomV(<<Ch.lowerA>>), Atom(FALSE, <<Ch.lowerA>>, <<>>), AtomV(<<Ch.space>>)}

TextTrees ==
    AtomsOver(SeqsUpTo({Ch.lowerA, Ch.space, Ch.nul}, MaxLen),
              HintsUpTo({Ch.lowerA}, MaxHint))
    \cup ListsUpTo(TextLeaves, MaxNodes)

\* The texts of tree s, each with the form it is in.
Texts(s) ==
    {[form |-> "canonical", e |-> Pack(s)], [form |-> "transport", e |-> Base64String(s)]}
    \cup {[form |-> "advanced", e |-> o.b] : o \in {p \in {String(s)} : ~p.panic}}

\* What may follow a complete value without extending it: nothing, or bytes
\* the first of which is no token byte.
Tails ==
    {t \in SeqsUpTo({Ch.space, Ch.rparen, Ch.lowerA}, MaxTail) :
        t = <<>> \/ t[1] \notin tokenChar}

RECURSIVE Concat(_)
\* The texts ts one after the other.
Concat(ts) == IF ts = <<>> THEN <<>> ELSE Head(ts) \o Concat(Tail(ts))

\* No text of ts but the last ends in a token byte that the next one goes on.
Separate(ts) ==
    \A i \in 1..(Len(ts) - 1) :
        ~(Last(ts[i]) \in tokenChar /\ Head(ts[i + 1]) \in tokenChar)

\* The streams that hold the members of list l, one after the other.
Streams(l) ==
    {[form |-> "canonical stream", e |-> Concat([i \in 1..Len(l) |-> Pack(l[i])])]}
    \cup {[form |-> "advanced stream", e |-> Concat(ts)] :
            ts \in {t \in {[i \in 1..Len(l) |-> String(l[i]).b]} : Separate(t)}}

\* The decimal notation of n: digits, no leading zero, "0" for zero.
Decimal(n) ==
    CHOOSE d \in UNION {[1..k -> decimalDigit] : k \in 1..MaxDigits} :
        (Len(d) > 1 => d[1] # Ch.zero) /\ DigitsValue(d, 10) = n

\* A byte run behind its length and a colon.
Run(b) == Decimal(Len(b)) \o <<Ch.colon>> \o b

\* The 64 characters of the standard base64 alphabet, in order.
B64Alphabet ==
    [i \in 1..64 |-> IF i <= 26 THEN 64 + i
                     ELSE IF i <= 52 THEN 70 + i
                     ELSE IF i <= 62 THEN i - 5
                     ELSE IF i = 63 THEN Ch.plus ELSE Ch.slash]

\* Bit k of byte string b, the most significant bit of b[1] being bit 1;
\* zero past the end.
BitOf(b, k) ==
    IF k > 8 * Len(b) THEN 0
    ELSE (b[((k - 1) \div 8) + 1] \div (2 ^ (7 - ((k - 1) % 8)))) % 2

\* The j-th group of six bits of b, as a number.
Sextet(b, j) ==
    32 * BitOf(b, 6 * j - 5) + 16 * BitOf(b, 6 * j - 4) + 8 * BitOf(b, 6 * j - 3)
    + 4 * BitOf(b, 6 * j - 2) + 2 * BitOf(b, 6 * j - 1) + BitOf(b, 6 * j)

\* Standard base64 of b: one character for every six bits begun, then '='
\* up to a multiple of four characters.
StdBase64(b) ==
    LET n == (8 * Len(b) + 5) \div 6
    IN  [j \in 1..(4 * ((n + 3) \div 4)) |->
            IF j <= n THEN B64Alphabet[Sextet(b, j) + 1] ELSE Ch.eq]

\* The sixteen hexadecimal digits, lower case.
HexDigits == <<48, 49, 50, 51, 52, 53, 54, 55, 56, 57, 97, 98, 99, 100, 101, 102>>

\* b in hexadecimal, two digits a byte.
HexText(b) ==
    [j \in 1..(2 * Len(b)) |->
        IF j % 2 = 1 THEN HexDigits[(b[(j + 1) \div 2] \div 16) + 1]
        ELSE HexDigits[(b[j \div 2] % 16) + 1]]

RECURSIVE QuotedBody(_)
\* b between quotes: a double quote and a backslash behind a backslash,
\* every other byte as it is.
QuotedBody(b) ==
    IF b = <<>> THEN <<>>
    ELSE (IF Head(b) \in {Ch.dquote, Ch.backslash} THEN <<Ch.backslash, Head(b)>>
          ELSE <<Head(b)>>) \o QuotedBody(Tail(b))

Quoted(body) == <<Ch.dquote>> \o body \o <<Ch.dquote>>

\* b can be written as a bare token.
IsToken(b) ==
    /\ b # <<>> /\ b[1] \notin decimalDigit
    /\ \A i \in 1..Len(b) : b[i] \in tokenChar

\* The byte strings written in every sub-encoding: over a token byte, a
\* digit, the two bytes a quoted string escapes, a binary and a high byte,
\* and longer ones that fill a base64 quantum.
EncBytes == {Ch.lowerA, Ch.zero + 1, Ch.dquote, Ch.backslash, Ch.nul, 255}

EncValues ==
    SeqsUpTo(EncBytes, MaxLen) \cup [1..(MaxLen + 1) -> {Ch.lowerA, 255}]

\* The texts of byte string b in the sub-encodings.
Encodings(b) ==
    {[form |-> "raw string", e |-> Run(b)],
     [form |-> "hexadecimal", e |-> <<Ch.hash>> \o HexText(b) \o <<Ch.hash>>],
     [form |-> "base64", e |-> <<Ch.pipe>> \o StdBase64(b) \o <<Ch.pipe>>],
     [form |-> "quoted", e |-> Quoted(QuotedBody(b))]}
    \cup (IF IsToken(b) THEN {[form |-> "token", e |-> b]} ELSE {})

\* The forms of Encodings.
EncForms == {"raw string", "hexadecimal", "base64", "quoted", "token"}

\* The trees read behind blanks and inside a transport block.
BlankTrees == TextLeaves \cup ListsUpTo(TextLeaves, MaxNodes)

\* The runs of whitespace put in front of a text.
Blanks == SeqsUpTo(whitespaceChar, MaxBlanks) \ {<<>>}

\* A transport block whose payload is the packing of a and then that of b.
TwoInTransport(a, b) ==
    <<Ch.lbrace>> \o StdBase64(Pack(a) \o Pack(b)) \o <<Ch.rbrace>>

\* The bytes between the quotes on either side of an escape sequence.
Literals == SeqsUpTo({Ch.lowerA}, MaxBody)

\* Bodies of quoted strings: runs of a letter, an escaped n, a literal CR
\* and a literal LF.
BodyItems == {<<Ch.lowerA>>, <<Ch.backslash, Ch.lowerN>>, <<Ch.cr>>, <<Ch.lf>>}

Bodies == {Concat(items) : items \in SeqsUpTo(BodyItems, MaxBody)}

\* Backslash, x and two bytes: hexadecimal digits, a letter that is none
\* and a blank.
HexEscapes ==
    {<<Ch.backslash, Ch.lowerX, h1, h2>> :
        h1 \in hexadecimalDigit \cup {103, Ch.space},
        h2 \in hexadecimalDigit \cup {103, Ch.space}}

\* Backslash and three octal digits.
OctalEscapes ==
    {<<Ch.backslash, o1, o2, o3>> : o1 \in octalDigit, o2 \in octalDigit, o3 \in octalDigit}

\* Backslash and one byte: the nine escape characters, and bytes that are
\* none: letters, digits that are not octal, a blank, a parenthesis and
\* binary bytes.
CharEscapes ==
    {<<Ch.backslash, c>> :
        c \in {Ch.lowerB, Ch.lowerT, Ch.lowerV, Ch.lowerN, Ch.lowerF, Ch.lowerR,
               Ch.dquote, Ch.squote, Ch.backslash}
              \cup {Ch.lowerA, Ch.upperA + 1, 56, 57, Ch.space, Ch.lparen, Ch.nul, 255}}

\* Backslash and a line end.
Continuations ==
    {<<Ch.backslash, Ch.lf>>, <<Ch.backslash, Ch.lf, Ch.cr>>,
     <<Ch.backslash, Ch.cr>>, <<Ch.backslash, Ch.cr, Ch.lf>>}

\* The byte that would extend continuation c, or -1.
Partner(c) == IF Len(c) = 3 THEN -1 ELSE IF c[2] = Ch.lf THEN Ch.cr ELSE Ch.lf

\* The forms of a quoted string with an escape sequence put into it.
EscapeForms == {"hex escape", "octal escape", "escape", "continuation"}

-----------------------------------------------------------------------------
(* The calls.                                                              *)

\* What a call returned; a call fills the fields it has.
Res(s, rest, err, b, n, ok, panic) ==
    [s |-> s, rest |-> rest, err |-> err, b |-> b, n |-> n, ok |-> ok,
     panic |-> panic]

NoRes == Res(NilSexp, <<>>, "nil", <<>>, 0, FALSE, FALSE)

\* How text was made from the complete text e.
Gen(form, e, cut, tail) == [form |-> form, e |-> e, cut |-> cut, tail |-> tail]

\* Init of Spec: a tree, or a pair of trees to compare; no text yet.
Init ==
    /\ \/ v \in Trees /\ w = NilSexp
       \/ v \in EqTrees /\ w \in EqTrees
    /\ gen = Gen("none", <<>>, 0, <<>>)
    /\ text = <<>>
    /\ rd = NewReader(<<>>)
    /\ res = NoRes
    /\ reads = <<>>
    /\ pc = "new"

\* v.Pack()
CallPack ==
    /\ pc = "new" /\ w = NilSexp
    /\ text' = Pack(v)
    /\ gen' = Gen("canonical", text', Len(text'), <<>>)
    /\ res' = Res(NilSexp, <<>>, "nil", text', 0, FALSE, FALSE)
    /\ rd' = NewReader(text')
    /\ pc' = "ready"
    /\ UNCHANGED <<v, w, reads>>

\* v.String(); a panic leaves no text.
CallString ==
    /\ pc = "new" /\ w = NilSexp
    /\ LET o == String(v)
       IN  /\ text' = o.b
           /\ res' = Res(NilSexp, <<>>, "nil", o.b, 0, FALSE, o.panic)
           /\ pc' = IF o.panic THEN "panicked" ELSE "ready"
    /\ gen' = Gen("advanced", text', Len(text'), <<>>)
    /\ rd' = NewReader(text')
    /\ UNCHANGED <<v, w, reads>>

\* v.Base64String()
CallBase64String ==
    /\ pc = "new" /\ w = NilSexp
    /\ text' = Base64String(v)
    /\ gen' = Gen("transport", text', Len(text'), <<>>)
    /\ res' = Res(NilSexp, <<>>, "nil", text', 0, FALSE, FALSE)
    /\ rd' = NewReader(text')
    /\ pc' = "ready"
    /\ UNCHANGED <<v, w, reads>>

\* v.PackedLen()
CallPackedLen ==
    /\ pc = "new" /\ w = NilSexp
    /\ res' = Res(NilSexp, <<>>, "nil", <<>>, PackedLen(v), FALSE, FALSE)
    /\ pc' = "measured"
    /\ UNCHANGED <<v, w, gen, text, rd, reads>>

\* v.Equal(w)
CallEqual ==
    /\ pc = "new" /\ w # NilSexp
    /\ res' = Res(NilSexp, <<>>, "nil", <<>>, 0, Equal(v, w), FALSE)
    /\ pc' = "compared"
    /\ UNCHANGED <<v, w, gen, text, rd, reads>>

\* Parse(text)
CallParse ==
    /\ pc = "ready"
    /\ LET p == Parse(text)
       IN  res' = Res(p.s, p.rest, p.err, <<>>, 0, FALSE, FALSE)
    /\ pc' = "parsed"
    /\ UNCHANGED <<v, w, gen, text, rd, reads>>

\* Text t, and t with one blank put into it at any place.
WithBlank(t) ==
    {t} \cup {Take(t, k) \o <<c>> \o Drop(t, k) : k \in 0..Len(t), c \in {Ch.space, Ch.lf}}

\* The forms of a string behind a declared length.
DeclaredForms == {"declared hexadecimal", "declared base64", "declared quoted"}

\* The byte strings written behind a declared length.
DeclaredValues == SeqsUpTo({Ch.lowerA, 255}, MaxLen)

\* The texts of byte string b behind the declared length n: in hexadecimal
\* and in base64, with or without a blank in the body, and quoted.  The
\* length is kept in cut.
Declared(b, n) ==
    {Gen("declared hexadecimal", Decimal(n) \o <<Ch.hash>> \o t \o <<Ch.hash>>, n, <<>>) :
        t \in WithBlank(HexText(b))}
    \cup {Gen("declared base64", Decimal(n) \o <<Ch.pipe>> \o t \o <<Ch.pipe>>, n, <<>>) :
        t \in WithBlank(StdBase64(b))}
    \cup {Gen("declared quoted", Decimal(n) \o Quoted(QuotedBody(b)), n, <<>>)}

\* The quoted string of x and y, and the escape sequence to go in between.
Escapes ==
    {Gen(f[1], Quoted(x \o y), Len(x) + 1, f[2]) :
        x \in Literals, y \in Literals,
        f \in ({"hex escape"} \X HexEscapes) \cup ({"octal escape"} \X OctalEscapes)
              \cup ({"escape"} \X CharEscapes)}
    \cup {g \in {Gen("continuation", Quoted(x \o y), Len(x) + 1, c) :
                    x \in Bodies, y \in Bodies, c \in Continuations} :
            g.e[g.cut + 1] # Partner(g.tail)}

\* Strings and transport blocks that the stream ends in: a quoted string
\* with an escape sequence, a hexadecimal string, a base64 string and a
\* transport block, each cut short before its last byte or earlier.
Opened ==
    UNION {{Take(Take(g.e, g.cut) \o g.tail \o Drop(g.e, g.cut), k) :
                k \in 1..(Len(g.e) + Len(g.tail) - 1)} : g \in Escapes}
    \cup UNION {{<<Ch.hash>> \o Take(HexText(b), k) : k \in 0..(2 * Len(b))}
                    : b \in DeclaredValues}
    \cup UNION {{<<Ch.pipe>> \o Take(StdBase64(b), k) : k \in 0..Len(StdBase64(b))}
                    : b \in DeclaredValues}
    \cup UNION {{<<Ch.lbrace>> \o Take(StdBase64(Pack(t)), k) :
                    k \in 0..Len(StdBase64(Pack(t)))} : t \in TextLeaves}

\* What stands in front of them: nothing, an open list, a display hint.
Fronts == {<<>>, <<Ch.lparen>>, <<Ch.lbracket, Ch.lowerA, Ch.rbracket>>}

Unterminated ==
    {Gen("unterminated", f \o t, Len(f \o t), <<>>) : f \in Fronts, t \in Opened}

\* The text that g describes: the complete text e cut short at cut and
\* followed by tail; or, for a text with blanks, the blanks tail in front of
\* e, at the top level or as the one member of a list; or, for a quoted
\* string with an escape sequence, the sequence tail put into e behind cut;
\* or, for a string behind a declared length, e as it is.
TextOf(g) ==
    IF g.form = "blanks" THEN g.tail \o g.e
    ELSE IF g.form \in EscapeForms
         THEN Take(g.e, g.cut) \o g.tail \o Drop(g.e, g.cut)
    ELSE IF g.form \in DeclaredForms THEN g.e
    ELSE IF g.form = "blanks in list"
         THEN <<Ch.lparen>> \o g.tail \o g.e \o <<Ch.rparen>>
    ELSE Take(g.e, g.cut) \o g.tail

\* Init of SpecText: a text to read, from a fresh stream.  The text is drawn
\* over the syntax bytes, or it is a text of tree v with a tail or cut
\* short, or the texts of the members of list v one after the other, or
\* the value of atom v in one of the sub-encodings, or a transport block
\* whose payload is the packing of v and then that of w, or a text of v
\* behind a run of blanks, or a quoted string with an escape sequence, or
\* the value of atom v behind a declared length, or a text that ends
\* inside a string or a transport block.
InitText ==
    /\ \/ /\ v = NilSexp /\ w = NilSexp
          /\ \E t \in SeqsUpTo(SyntaxBytes, MaxText) : gen = Gen("raw", t, Len(t), <<>>)
       \/ /\ v \in TextTrees /\ w = NilSexp
          /\ \E x \in Texts(v) :
                \/ \E tail \in Tails : gen = Gen(x.form, x.e, Len(x.e), tail)
                \/ \E cut \in 0..(Len(x.e) - 1) : gen = Gen(x.form, x.e, cut, <<>>)
       \/ /\ v \in ListsUpTo(TextLeaves, MaxNodes) /\ w = NilSexp
          /\ \E x \in Streams(v.elems) : gen = Gen(x.form, x.e, Len(x.e), <<>>)
       \/ /\ \E b \in EncValues : v = AtomV(b)
          /\ w = NilSexp
          /\ \E x \in Encodings(v.Value) : gen = Gen(x.form, x.e, Len(x.e), <<>>)
       \/ /\ v \in BlankTrees /\ w \in TextLeaves
          /\ \E x \in {TwoInTransport(v, w)} : gen = Gen("transport of two", x, Len(x), <<>>)
       \/ /\ v \in BlankTrees /\ w = NilSexp
          /\ \E x \in Texts(v), blanks \in Blanks, form \in {"blanks", "blanks in list"} :
                gen = Gen(form, x.e, Len(x.e), blanks)
       \/ /\ v = NilSexp /\ w = NilSexp
          /\ gen \in Escapes
       \/ /\ v = NilSexp /\ w = NilSexp
          /\ gen \in Unterminated
       \/ /\ \E b \in DeclaredValues : v = AtomV(b)
          /\ w = NilSexp
          /\ \E n \in 0..(MaxLen + 1) : gen \in Declared(v.Value, n)
    /\ text = TextOf(gen)
    /\ rd = NewReader(text)
    /\ res = NoRes
    /\ reads = <<>>
    /\ pc = "ready"

\* Read(rd) on the stream of the text, while no read has failed.
CallRead ==
    /\ pc \in {"ready", "reading"}
    /\ Len(reads) < MaxReads
    /\ reads # <<>> => Last(reads).err = "nil"
    /\ LET x == Read(rd, {})
       IN  /\ reads' = Append(reads, [s |-> x.s, err |-> x.err, from |-> rd.buf])
           /\ rd' = x.r
    /\ pc' = "reading"
    /\ UNCHANGED <<v, w, gen, text, res>>

Next ==
    \/ CallPack
    \/ CallString
    \/ CallBase64String
    \/ CallPackedLen
    \/ CallEqual
    \/ CallParse

Spec == Init /\ [][Next]_vars

NextText ==
    \/ CallParse
    \/ CallRead

SpecText == InitText /\ [][NextText]_vars

-----------------------------------------------------------------------------
(* Properties.                                                             *)

\* A call that returned an error: "diverges" marks a call that never returns.
IsError(err) == err \notin {"nil", "diverges"}

\* C1: for every tree v, Parse(v.Pack()) returns no error and a value that
\* Equal reports equal to v.
RoundTripCanonical ==
    pc = "parsed" /\ gen.form = "canonical" =>
        res.err = "nil" /\ res.s # NilSexp /\ Equal(res.s, v)

\* A list with a hinted member has been packed and parsed back.
RoundTripCanonicalWitness ==
    /\ pc = "parsed" /\ gen.form = "canonical"
    /\ v.kind = "List"
    /\ \E i \in 1..Len(v.elems) : Len(v.elems[i].DisplayHint) > 0
    /\ res.s.kind = "List"

\* C2: the packings of two trees are the same bytes exactly when Equal
\* reports the trees equal; an absent and an empty display hint pack alike
\* and compare equal.
PackDecidesEqual == pc = "compared" => (res.ok <=> Pack(v) = Pack(w))

\* An atom with no display hint has been compared with the atom of the same
\* value and an empty display hint, and found equal.
PackDecidesEqualWitness ==
    /\ pc = "compared" /\ res.ok
    /\ v.kind = "Atom" /\ v.hintNil
    /\ w.kind = "Atom" /\ ~w.hintNil /\ w.DisplayHint = <<>>

RECURSIVE Layout(_)
\* The canonical layout of tree s.
Layout(s) ==
    IF s.kind = "Atom"
    THEN (IF s.hintNil \/ s.DisplayHint = <<>> THEN <<>>
          ELSE <<Ch.lbracket>> \o Run(s.DisplayHint) \o <<Ch.rbracket>>)
         \o Run(s.Value)
    ELSE <<Ch.lparen>> \o Concat([i \in 1..Len(s.elems) |-> Layout(s.elems[i])])
         \o <<Ch.rparen>>

\* C3: Pack writes the canonical layout: the display hint, if there is a
\* non-empty one, in brackets as length, colon and bytes, then the value as
\* length, colon and bytes, lengths in decimal without leading zeros; a list
\* as its members' packings between parentheses.
PackLayout == pc = "ready" /\ gen.form = "canonical" => text = Layout(v)

\* A list of an atom with an empty value and an atom with a display hint
\* has been packed.
PackLayoutWitness ==
    /\ pc = "ready" /\ gen.form = "canonical"
    /\ v.kind = "List"
    /\ \E i \in 1..Len(v.elems) : v.elems[i].kind = "Atom" /\ v.elems[i].Value = <<>>
    /\ \E i \in 1..Len(v.elems) : Len(v.elems[i].DisplayHint) > 0

\* C4: PackedLen of every tree v is the number of bytes of v.Pack().
PackedLenIsLength == pc = "measured" => res.n = Len(Pack(v))

\* C5: for every tree v, v.String() is written and Parse of it returns no
\* error and a value equal to v.
RoundTripAdvanced ==
    gen.form = "advanced" =>
        /\ pc # "panicked"
        /\ pc = "parsed" => res.err = "nil" /\ res.s # NilSexp /\ Equal(res.s, v)

\* The text is a complete text of v followed by a tail that cannot extend it.
CompleteWithTail ==
    gen.form \in {"canonical", "advanced", "transport"} /\ gen.cut = Len(gen.e)

\* C6: Parse of a complete value's text followed by a tail returns the value
\* and exactly the tail as the remainder.
RemainderIsTail ==
    pc = "parsed" /\ CompleteWithTail =>
        res.err = "nil" /\ res.s # NilSexp /\ Equal(res.s, v) /\ res.rest = gen.tail

\* The text is the texts of the members of list v, one after the other.
IsStream == gen.form \in {"canonical stream", "advanced stream"}

\* C7: on a stream of n complete values, read k <= n returns the k-th value
\* without error, and read n+1 returns io.EOF and no value.
ReadsTheSequence ==
    IsStream =>
        \A k \in 1..Len(reads) :
            IF k <= Len(v.elems)
            THEN /\ reads[k].err = "nil"
                 /\ reads[k].s # NilSexp
                 /\ Equal(reads[k].s, v.elems[k])
            ELSE reads[k].err = "EOF" /\ reads[k].s = NilSexp

\* The text is a raw length-prefixed string cut short after its colon.
ShortRaw ==
    /\ gen.form = "canonical"
    /\ v.kind = "Atom" /\ Len(v.DisplayHint) = 0
    /\ gen.cut >= Len(Itoa(Len(v.Value))) + 1
    /\ gen.cut < Len(gen.e)

\* C8: a raw string that declares more bytes than follow its colon is
\* rejected with an error by Parse and by Read.
ShortRawRejected ==
    ShortRaw =>
        /\ pc = "parsed" => res.err # "nil"
        /\ reads # <<>> => reads[1].err # "nil"

\* The text is a proper, non-empty prefix of the text of a list.
OpenList ==
    /\ gen.form \in {"canonical", "advanced"}
    /\ v.kind = "List"
    /\ gen.cut >= 1 /\ gen.cut < Len(gen.e)

\* C9: when the stream ends while a list is open, Parse and Read return an
\* error.
OpenListRejected ==
    OpenList =>
        /\ pc = "parsed" => IsError(res.err)
        /\ reads # <<>> => IsError(reads[1].err)

RECURSIVE DeepEqual(_, _)
\* Type-tagged deep equality: the same kind; for atoms the same value bytes
\* and the same hint bytes, an absent hint being an empty one; for lists the
\* same length and members pairwise deep-equal in order.
DeepEqual(a, b) ==
    /\ a.kind = b.kind
    /\ a.kind = "Atom" => a.Value = b.Value /\ a.DisplayHint = b.DisplayHint
    /\ a.kind = "List" =>
        /\ Len(a.elems) = Len(b.elems)
        /\ \A i \in 1..Len(a.elems) : DeepEqual(a.elems[i], b.elems[i])

\* C11: Equal is type-tagged deep equality: atoms are equal iff their values
\* and their display hints are byte-equal (absent and empty hints alike),
\* lists iff they have the same length and pairwise equal members in the same
\* order, and an Atom is never equal to a List.
EqualIsDeepEquality ==
    pc = "compared" =>
        /\ res.ok <=> DeepEqual(v, w)
        /\ v.kind # w.kind => ~res.ok
        /\ v = List(<<>>) /\ w = List(<<>>) => res.ok

\* A list of two different members has been compared with the list of the
\* same members in the other order, and found not equal.
EqualIsDeepEqualityWitness ==
    /\ pc = "compared" /\ ~res.ok
    /\ v.kind = "List" /\ Len(v.elems) = 2
    /\ w = List(<<v.elems[2], v.elems[1]>>)
    /\ v.elems[1] # v.elems[2]


\* C12: the value parsed does not depend on the sub-encoding of the text:
\* the raw, hexadecimal, base64 and quoted forms of byte string b, and the
\* bare token when b is one, all parse (and read) to an Atom equal to
\* Atom{Value: b}, which packs to the length of b, a colon and b.
SubEncodingsAgree ==
    gen.form \in EncForms =>
        /\ pc = "parsed" =>
            /\ res.err = "nil"
            /\ res.s.kind = "Atom" /\ Equal(res.s, v) /\ res.s.Value = v.Value
            /\ Pack(res.s) = Run(v.Value)
        /\ reads # <<>> =>
            /\ reads[1].err \in {"nil", "EOF"}
            /\ reads[1].s.kind = "Atom" /\ Equal(reads[1].s, v)
            /\ Pack(reads[1].s) = Run(v.Value)

\* The hexadecimal form of a value with a byte above 0x9F has been parsed.
SubEncodingsAgreeWitness ==
    /\ gen.form = "hexadecimal" /\ pc = "parsed"
    /\ \E i \in 1..Len(v.Value) : v.Value[i] = 255
    /\ Len(res.s.Value) = MaxLen + 1


\* C13: for every tree v, v.Base64String() is "{", the standard base64 of
\* v.Pack() and "}", and Parse of it returns no error and a value equal to
\* v, the value that Parse of v.Pack() returns.
TransportRoundTrip ==
    gen.form = "transport" /\ gen.cut = Len(gen.e) /\ gen.tail = <<>> =>
        /\ text = <<Ch.lbrace>> \o StdBase64(Pack(v)) \o <<Ch.rbrace>>
        /\ pc = "parsed" =>
            /\ res.err = "nil"
            /\ res.s # NilSexp /\ Equal(res.s, v)
            /\ res.s = Parse(Pack(v)).s

\* The transport text of a list of several members, one of them with a
\* display hint, has been written and parsed to a list.
TransportRoundTripWitness ==
    /\ gen.form = "transport" /\ gen.cut = Len(gen.e) /\ gen.tail = <<>>
    /\ pc = "parsed"
    /\ v.kind = "List" /\ Len(v.elems) > 1
    /\ \E i \in 1..Len(v.elems) : Len(v.elems[i].DisplayHint) > 0
    /\ res.s.kind = "List"

\* C14: a transport block holds exactly one value: when its payload decodes
\* to a complete value followed by further bytes, Parse and Read return an
\* error, not the value.
TransportHoldsOneValue ==
    gen.form = "transport of two" =>
        /\ pc = "parsed" => IsError(res.err) /\ res.s = NilSexp
        /\ reads # <<>> => IsError(reads[1].err) /\ reads[1].s = NilSexp

\* The text with the blanks left out, read alone.
ReadWithoutBlanks ==
    Read(NewReader(IF gen.form = "blanks" THEN gen.e
                   ELSE <<Ch.lparen>> \o gen.e \o <<Ch.rparen>>), {})

\* C15: Read dispatches on the first byte that is no whitespace: a run of
\* blanks in front of the text of a complete value, at the top level or
\* in a list, changes neither the value read nor the error.
BlanksSkipped ==
    gen.form \in {"blanks", "blanks in list"} /\ reads # <<>> =>
        /\ reads[1].s = ReadWithoutBlanks.s
        /\ reads[1].err = ReadWithoutBlanks.err


\* Parse and Read return on every text.
Returns ==
    /\ pc = "parsed" => res.err # "diverges"
    /\ \A k \in 1..Len(reads) : reads[k].err # "diverges"

\* A read that delivered the value of a complete text leaves no byte of
\* that text in the stream.
Advances ==
    CompleteWithTail /\ Len(reads) = 1 /\ reads[1].err = "nil" =>
        Len(rd.buf) <= Len(gen.tail)

\* C16: on every finite text Parse and Read return, with a value or an
\* error, and the stream is left at or behind the end of the value that was
\* delivered: a text that ends after a bare token or a raw string, or inside
\* an open list, is no exception.
ReturnsAndAdvances == Returns /\ Advances

\* The bytes of the quoted string in front of and behind the escape sequence.
Before == SubSeq(gen.e, 2, gen.cut)
Behind == SubSeq(gen.e, gen.cut + 1, Len(gen.e) - 1)

\* The value of hexadecimal digit c, in either case.
Nibble(c) == CHOOSE n \in 0..15 : HexDigits[n + 1] = c \/ HexDigits[n + 1] = c + 32

\* C17: in a quoted string backslash, x and two hexadecimal digits h1 h2
\* append the one byte 16*h1+h2 and the string goes on as before; a byte
\* that is no hexadecimal digit in either place is an error.
HexEscapeDecodes ==
    gen.form = "hex escape" /\ pc = "parsed" =>
        IF gen.tail[3] \in hexadecimalDigit /\ gen.tail[4] \in hexadecimalDigit
        THEN /\ res.err = "nil"
             /\ res.s = AtomV(Before \o <<16 * Nibble(gen.tail[3]) + Nibble(gen.tail[4])>>
                              \o Behind)
        ELSE IsError(res.err)

\* The number that three octal digits write.
OctalNumber(e) == 64 * (e[2] - Ch.zero) + 8 * (e[3] - Ch.zero) + (e[4] - Ch.zero)

\* C18: in a quoted string a backslash and three octal digits append the
\* one byte the digits write in octal, not the digits, and the string goes
\* on as before.
OctalEscapeDecodes ==
    gen.form = "octal escape" /\ pc = "parsed" /\ OctalNumber(gen.tail) <= 255 =>
        /\ res.err = "nil"
        /\ res.s = AtomV(Before \o <<OctalNumber(gen.tail)>> \o Behind)

\* C19: in a quoted string a backslash and a line end (LF, LF CR, CR or
\* CR LF) add nothing to the value: the string with the continuation
\* between x and y, y not beginning with the byte that would extend the
\* line end, decodes as the string of x and y does.
ContinuationAddsNothing ==
    gen.form = "continuation" /\ pc = "parsed" =>
        /\ res.err = Parse(gen.e).err
        /\ res.s = Parse(gen.e).s
        /\ res.rest = Parse(gen.e).rest

\* The bytes that the single-character escapes stand for.
EscapeTable ==
    (98 :> 8) @@ (116 :> 9) @@ (118 :> 11) @@ (110 :> 10) @@ (102 :> 12)
    @@ (114 :> 13) @@ (34 :> 34) @@ (39 :> 39) @@ (92 :> 92)

\* C20: in a quoted string a backslash and one of b t v n f r " ' \ append
\* BS, TAB, VT, LF, FF, CR, the double quote, the single quote and the
\* backslash, and the string goes on as before (an escaped double quote
\* does not end it); a backslash and a byte that is none of these, no x, no
\* octal digit, no LF and no CR is an error.
CharEscapeDecodes ==
    gen.form = "escape" =>
        /\ pc = "parsed" =>
            IF gen.tail[2] \in DOMAIN EscapeTable
            THEN /\ res.err = "nil"
                 /\ res.s = AtomV(Before \o <<EscapeTable[gen.tail[2]]>> \o Behind)
                 /\ res.rest = <<>>
            ELSE IsError(res.err) /\ res.s = NilSexp
        /\ reads # <<>> =>
            IF gen.tail[2] \in DOMAIN EscapeTable
            THEN /\ reads[1].err = "nil"
                 /\ reads[1].s = AtomV(Before \o <<EscapeTable[gen.tail[2]]>> \o Behind)
            ELSE IsError(reads[1].err)

\* A string with an escaped double quote between other bytes has been
\* parsed to the bytes and the quote.
CharEscapeDecodesWitness ==
    /\ gen.form = "escape" /\ pc = "parsed"
    /\ gen.tail[2] = Ch.dquote
    /\ Before # <<>> /\ Behind # <<>>
    /\ res.s.kind = "Atom" /\ Len(res.s.Value) = Len(Before) + 1 + Len(Behind)


\* C21: a hexadecimal or base64 string behind a declared length L is
\* accepted, with the decoded bytes as its value, exactly when the number
\* of bytes decoded, blanks in the body skipped, is L, and rejected with an
\* error otherwise; the encoded characters are not what is counted.
DeclaredLengthIsDecodedLength ==
    gen.form \in {"declared hexadecimal", "declared base64"} =>
        /\ pc = "parsed" =>
            IF Len(v.Value) = gen.cut
            THEN res.err = "nil" /\ res.s = v /\ res.rest = <<>>
            ELSE IsError(res.err) /\ res.s = NilSexp
        /\ reads # <<>> =>
            IF Len(v.Value) = gen.cut
            THEN reads[1].err = "nil" /\ reads[1].s = v
            ELSE IsError(reads[1].err)

\* A hexadecimal string of two characters, with a blank between them, has
\* been parsed behind the declared length 2 and rejected, and it decodes
\* to one byte.
DeclaredLengthIsDecodedLengthWitness ==
    /\ gen.form = "declared hexadecimal" /\ pc = "parsed"
    /\ gen.cut = 2 /\ Len(v.Value) = 1
    /\ Len(text) = 6
    /\ IsError(res.err)

\* C22: a quoted string behind a declared length L is accepted, with its
\* decoded value, exactly when the decoded length is L (L = 0 included),
\* and rejected with an error otherwise.
DeclaredLengthOfQuoted ==
    gen.form = "declared quoted" =>
        /\ pc = "parsed" =>
            IF Len(v.Value) = gen.cut
            THEN res.err = "nil" /\ res.s = v
            ELSE IsError(res.err)
        /\ reads # <<>> =>
            IF Len(v.Value) = gen.cut
            THEN reads[1].err = "nil" /\ reads[1].s = v
            ELSE IsError(reads[1].err)


\* C23 as stated: when the stream ends before the closing '"', '#', '|' or
\* '}', Parse and Read return an error and no value made of bytes read.
NothingWhenUnterminated ==
    gen.form = "unterminated" =>
        /\ pc = "parsed" => IsError(res.err) /\ res.s = NilSexp
        /\ reads # <<>> =>
            /\ IsError(reads[1].err)
            /\ reads[1].s.kind # "List"
            /\ reads[1].s.Value = <<>> /\ reads[1].s.DisplayHint = <<>>

\* C23, amended: when the stream ends before the closing '"', '#', '|' or
\* '}', Parse returns an error and a nil value; Read returns an error and
\* no List, and no byte of the string that was not closed is in the value:
\* what Read returns with the error is nil or an Atom with an empty Value,
\* which holds the display hint when one was read in front of the string.
NoStringWhenUnterminated ==
    gen.form = "unterminated" =>
        /\ pc = "parsed" => IsError(res.err) /\ res.s = NilSexp
        /\ reads # <<>> =>
            /\ IsError(reads[1].err)
            /\ reads[1].s.kind # "List"
            /\ reads[1].s.Value = <<>>
            /\ reads[1].s.DisplayHint # <<>> =>
                    /\ Take(text, 3) = <<Ch.lbracket, Ch.lowerA, Ch.rbracket>>
                    /\ reads[1].s.DisplayHint = <<Ch.lowerA>>

\* Read has returned an error for a quoted string that ends inside a
\* hexadecimal escape, behind a display hint, along with an Atom that holds
\* the hint alone.
NoStringWhenUnterminatedWitness ==
    /\ gen.form = "unterminated" /\ reads # <<>>
    /\ Len(text) > 6 /\ SubSeq(text, 4, 6) = <<Ch.dquote, Ch.backslash, Ch.lowerX>>
    /\ reads[1].err = "ErrUnterminatedString"
    /\ reads[1].s = Atom(FALSE, <<Ch.lowerA>>, <<>>)


\* The escape letter of each byte that a quoted string writes as an escape.
EscapeLetter ==
    (10 :> 110) @@ (9 :> 116) @@ (8 :> 98) @@ (13 :> 114) @@ (12 :> 102)
    @@ (11 :> 118) @@ (34 :> 34) @@ (92 :> 92)

RECURSIVE EscapedBody(_)
\* b with every byte that has an escape written as that escape.
EscapedBody(b) ==
    IF b = <<>> THEN <<>>
    ELSE (IF Head(b) \in DOMAIN EscapeLetter THEN <<Ch.backslash, EscapeLetter[Head(b)]>>
          ELSE <<Head(b)>>) \o EscapedBody(Tail(b))

\* The rendering of a non-empty byte string: a token, a quoted string or
\* base64.
RenderBytes(b) ==
    IF \A i \in 1..Len(b) : b[i] \in tokenChar THEN b
    ELSE IF \A i \in 1..Len(b) : b[i] \in stringEncChar THEN Quoted(EscapedBody(b))
    ELSE <<Ch.pipe>> \o StdBase64(b) \o <<Ch.pipe>>

RECURSIVE Render(_)
RECURSIVE RenderMembers(_)
\* The members of a list, a space between each two.
RenderMembers(l) ==
    IF l = <<>> THEN <<>>
    ELSE IF Len(l) = 1 THEN Render(l[1])
    ELSE Render(l[1]) \o <<Ch.space>> \o RenderMembers(Tail(l))

\* The advanced text of tree s.
Render(s) ==
    IF s.kind = "Atom"
    THEN (IF s.DisplayHint = <<>> THEN <<>>
          ELSE <<Ch.lbracket>> \o RenderBytes(s.DisplayHint) \o <<Ch.rbracket>>)
         \o (IF s.Value = <<>> THEN <<Ch.dquote, Ch.dquote>> ELSE RenderBytes(s.Value))
    ELSE <<Ch.lparen>> \o RenderMembers(s.elems) \o <<Ch.rparen>>

\* C24: String writes an empty value as two double quotes; a value of token
\* bytes as it is; a value of token bytes and bytes a quoted string can
\* hold between double quotes, each byte that has an escape (LF, TAB, BS,
\* CR, FF, VT, double quote, backslash) as that escape and every other byte
\* as it is; any other value as '|', its standard base64 and '|'.  A display
\* hint is written likewise between brackets, and the members of a list
\* between parentheses with one space between each two.
RendersByChoice ==
    gen.form = "advanced" => pc # "panicked" /\ gen.e = Render(v)


\* C25: Parse never succeeds without a value: on every input, the empty one
\* and a transport block with an empty payload among them, a nil error
\* comes with an Atom or a List, not with a nil value.
ParseSucceedsWithValue ==
    pc = "parsed" /\ res.err = "nil" => res.s.kind \in {"Atom", "List"}


=============================================================================
